---- MODULE Spec2Model ----
(***************************************************************************)
(* Nagel-Schreckenberg traffic automaton (src/main.py).                    *)
(*                                                                         *)
(* The lattice is a ring of `size` cells, each NSEMPTY or a speed.  One    *)
(* NaschAutomaton.update is two synchronous passes over the ring: the      *)
(* speed pass (NewspeedRule) and the movement pass (MovementRule), chosen  *)
(* by the flag `move`.  NaschImagePlayer.main drives `height` iterations   *)
(* of display / update.                                                    *)
(*                                                                         *)
(* random.random() is a draw in 0..DrawLevels-1 standing for the real      *)
(* draw/DrawLevels in [0,1); p is an integer standing for p/DrawLevels.    *)
(*                                                                         *)
(* The cage library (RadialMap, SynchronousAutomaton) is not part of       *)
(* src/; its ring addressing and its synchronous update are modelled as    *)
(* the rules of src/main.py use them.                                      *)
(***************************************************************************)
EXTENDS Integers, Sequences, FiniteSets

\* ---- bounds of the model -------------------------------------------------
MaxLen == 3          \* largest roadLength of the dense family
MaxVmax == 2         \* largest vmax of the dense family
MaxIters == 2        \* player iterations (height) of the dense family
DrawLevels == 2      \* resolution of random.random() and of p
GapMaxLen == 5       \* largest roadLength of the sparse family
GapMaxCars == 2      \* most vehicles of the sparse family
LoneMaxLen == 10     \* largest roadLength of the one-vehicle family
FlowMaxLen == 6      \* largest roadLength of the free-flow family

\* ---- program constants ---------------------------------------------------
NSEMPTY == -1
ProgramVmax == 5     \* vmax of the shipped simulation

VARIABLES
    size,      \* roadLength: number of cells of the ring
    vmax,      \* NewspeedRule.vmax / MovementRule.vmax / map radius
    p,         \* NewspeedRule.p, in units of 1/DrawLevels
    map,       \* the committed lattice: [0..size-1 -> {NSEMPTY} \cup Nat]
    move,      \* NaschRule.move
    row,       \* NaschImagePlayer.row
    height,    \* NaschImagePlayer.height (= iters)
    pc,        \* position inside NaschImagePlayer.main
    pre,       \* history: lattice when the current/last update was entered
    mid,       \* history: lattice committed by the speed pass of that update
    slowed,    \* history: per cell, whether its draw of that speed pass was < p
    log,       \* history: kinds of the passes run by that update, in order
    moveAtCall,\* history: value of move when that update was entered
    updates,   \* history: number of completed update calls
    shown,     \* history: TRUE iff the current lattice was handed to display
    cars0,     \* history: number of occupied cells of the initial lattice
    workMap,   \* the work map a pass writes into (step-wise passes only)
    self_table, \* the rule object's self.table (step-wise passes only)
    ppc        \* per address: position of its evaluation within the pass

\* the variables only the step-wise passes change
fine == <<workMap, self_table, ppc>>

vars == <<size, vmax, p, map, move, row, height, pc, pre, mid, slowed, log,
          moveAtCall, updates, shown, cars0, workMap, self_table, ppc>>

\* ---- helpers -------------------------------------------------------------
Min(a, b) == IF a <= b THEN a ELSE b
Max(a, b) == IF a >= b THEN a ELSE b

Cells(L) == 0 .. (L - 1)

\* the legal cell values for a given vmax
CellDomain(vm) == {NSEMPTY} \cup (0 .. vm)

Occupied(m) == {a \in DOMAIN m : m[a] /= NSEMPTY}

\* ---- the ring map (cage.RadialMap as NaschMap uses it) --------------------
\* get: the cell at address mod L
get(m, L, address) == m[address % L]

\* neighborhood: number of neighbours of a radial neighbourhood of radius r
neighborhood(r) == 2 * r

\* neighbors: the 2*r neighbour addresses, alternating ahead / behind at
\* increasing distance; Python index i is element i+1 here.
neighbors(address, r) ==
    [k \in 1 .. (2 * r) |->
        IF (k - 1) % 2 = 0 THEN address + ((k - 1) \div 2 + 1)
                           ELSE address - ((k - 1) \div 2 + 1)]

\* the Python indices 0..n-1 that pass a parity filter, in increasing order
RECURSIVE IndicesFrom(_, _, _)
IndicesFrom(i, n, parity) ==
    IF i >= n THEN <<>>
    ELSE IF i % 2 /= parity THEN IndicesFrom(i + 1, n, parity)
    ELSE <<i>> \o IndicesFrom(i + 1, n, parity)

\* ---- NewspeedRule --------------------------------------------------------
\* variant of NewspeedRule_populate: the parity filter keeps the odd indices
\* (the cells behind)
NewspeedRule_populate_rear(m, L, vm, address) ==
    LET idx == IndicesFrom(0, neighborhood(vm), 1)
    IN  <<get(m, L, address)>> \o
        [j \in 1 .. Len(idx) |-> get(m, L, neighbors(address, vm)[idx[j] + 1])]

\* populate: the cell itself, then the cells ahead (even indices)
NewspeedRule_populate(m, L, vm, address) ==
    LET idx == IndicesFrom(0, neighborhood(vm), 0)
    IN  <<get(m, L, address)>> \o
        [j \in 1 .. Len(idx) |-> get(m, L, neighbors(address, vm)[idx[j] + 1])]

\* variant of GapScan: an occupied cell does not end the scan (`continue`
\* where the code has `break`)
RECURSIVE GapScan_noBreak(_, _, _)
GapScan_noBreak(table, k, dist) ==
    IF k > Len(table) THEN dist
    ELSE IF table[k] = NSEMPTY THEN GapScan_noBreak(table, k + 1, dist + 1)
    ELSE GapScan_noBreak(table, k + 1, dist)

\* variant of GapScan: the occupied cell that ends the scan is counted too
RECURSIVE GapScan_plusOne(_, _, _)
GapScan_plusOne(table, k, dist) ==
    IF k > Len(table) THEN dist
    ELSE IF table[k] = NSEMPTY THEN GapScan_plusOne(table, k + 1, dist + 1)
    ELSE dist + 1

\* the loop of Rule #2: skip table[0], count NSEMPTY cells up to the first
\* occupied one; k is the 1-based position in table
RECURSIVE GapScan(_, _, _)
GapScan(table, k, dist) ==
    IF k > Len(table) THEN dist
    ELSE IF table[k] = NSEMPTY THEN GapScan(table, k + 1, dist + 1)
    ELSE dist

\* variant of NewspeedRule_rule: Rule #3 adds one where the code subtracts
NewspeedRule_rule_signSlip(table, vm, slow) ==
    IF table[1] = NSEMPTY THEN table[1]
    ELSE LET vel1 == Min(table[1] + 1, vm)
             dist == GapScan(table, 2, 0)
             vel2 == Min(vel1, dist)
         IN  IF slow THEN Max(vel2 + 1, 0) ELSE vel2

\* variant of NewspeedRule_rule: Rule #1 is missing
NewspeedRule_rule_noAccel(table, vm, slow) ==
    IF table[1] = NSEMPTY THEN table[1]
    ELSE LET vel1 == table[1]
             dist == GapScan(table, 2, 0)
             vel2 == Min(vel1, dist)
         IN  IF slow THEN Max(vel2 - 1, 0) ELSE vel2

\* variant of NewspeedRule_rule: Rule #3 subtracts without the floor at 0
NewspeedRule_rule_noFloor(table, vm, slow) ==
    IF table[1] = NSEMPTY THEN table[1]
    ELSE LET vel1 == Min(table[1] + 1, vm)
             dist == GapScan(table, 2, 0)
             vel2 == Min(vel1, dist)
         IN  IF slow THEN vel2 - 1 ELSE vel2

\* slow is the outcome of `random.random() < self.p` for this cell
NewspeedRule_rule(table, vm, slow) ==
    IF table[1] = NSEMPTY THEN table[1]
    ELSE LET vel1 == Min(table[1] + 1, vm)
             dist == GapScan(table, 2, 0)
             vel2 == Min(vel1, dist)
         IN  IF slow THEN Max(vel2 - 1, 0) ELSE vel2

\* ---- MovementRule --------------------------------------------------------
\* variant of MovementRule_populate: a neighbour address below 0 is not
\* wrapped; the cell is taken as the background value
MovementRule_populate_noWrap(m, L, vm, address) ==
    LET idx == IndicesFrom(0, neighborhood(vm), 1)
    IN  <<get(m, L, address)>> \o
        [j \in 1 .. Len(idx) |->
            IF neighbors(address, vm)[idx[j] + 1] < 0 THEN NSEMPTY
            ELSE get(m, L, neighbors(address, vm)[idx[j] + 1])]

\* populate: the cell itself, then the cells behind (odd indices)
MovementRule_populate(m, L, vm, address) ==
    LET idx == IndicesFrom(0, neighborhood(vm), 1)
    IN  <<get(m, L, address)>> \o
        [j \in 1 .. Len(idx) |-> get(m, L, neighbors(address, vm)[idx[j] + 1])]

\* variant of LandScan: table[0] is skipped without being counted
RECURSIVE LandScan_skipSelf(_, _, _)
LandScan_skipSelf(table, k, dist) ==
    IF k > Len(table) THEN table[1]
    ELSE IF k = 1 THEN LandScan_skipSelf(table, k + 1, dist)
    ELSE IF table[k] = NSEMPTY THEN LandScan_skipSelf(table, k + 1, dist + 1)
    ELSE IF table[k] = 0 THEN table[1]
    ELSE IF dist = table[k] THEN table[k]
    ELSE LandScan_skipSelf(table, k + 1, dist + 1)

\* the loop of Rule #4 over the whole table (table[0] included)
RECURSIVE LandScan(_, _, _)
LandScan(table, k, dist) ==
    IF k > Len(table) THEN table[1]
    ELSE IF table[k] = NSEMPTY THEN LandScan(table, k + 1, dist + 1)
    ELSE IF table[k] = 0 THEN table[1]
    ELSE IF dist = table[k] THEN table[k]
    ELSE LandScan(table, k + 1, dist + 1)

\* variant of MovementRule_rule: a moving vehicle's cell is not vacated
MovementRule_rule_keep(table) ==
    LET newpos == table[1]
    IN  IF newpos = 0 THEN newpos
        ELSE IF newpos > 0 THEN newpos
        ELSE LandScan(table, 1, 0)

MovementRule_rule(table) ==
    LET newpos == table[1]
    IN  IF newpos = 0 THEN newpos
        ELSE IF newpos > 0 THEN NSEMPTY
        ELSE LandScan(table, 1, 0)

\* ---- NaschRule -----------------------------------------------------------
NaschRule_rule(m, L, vm, mv, address, slow) ==
    IF mv = FALSE
    THEN NewspeedRule_rule(NewspeedRule_populate(m, L, vm, address), vm, slow)
    ELSE MovementRule_rule(MovementRule_populate(m, L, vm, address))

\* ---- cage.SynchronousAutomaton.update ------------------------------------
\* every address is evaluated against the committed map, then the work map
\* is swapped in
SynchronousAutomaton_update(m, L, vm, mv, sl) ==
    [a \in Cells(L) |-> NaschRule_rule(m, L, vm, mv, a, sl[a])]

\* the kind of pass a synchronous update runs under a given flag
PassKind(mv) == IF mv = FALSE THEN "speed" ELSE "movement"

\* ---- NaschAutomaton.update: the flag each pass runs under ----------------
\* variant of FirstPassFlag: update does not reset the flag before its
\* first pass
FirstPassFlag_keep(mv) == mv

FirstPassFlag(mv) == FALSE
SecondPassFlag(mv) == TRUE

\* the draws a speed pass can see: one per occupied cell (an empty cell
\* returns before random.random() is called; its entry is fixed at 0)
DrawsFor(m, L) ==
    {[a \in Cells(L) |-> IF m[a] = NSEMPTY THEN 0 ELSE d[a]] :
        d \in [Occupied(m) -> 0 .. (DrawLevels - 1)]}

\* variant of RandomSlow: the test is `<=`
RandomSlow_le(m, L, pp, d) ==
    [a \in Cells(L) |-> m[a] /= NSEMPTY /\ d[a] <= pp]

\* Rule #3's test `random.random() < self.p` for every cell that draws
RandomSlow(m, L, pp, d) ==
    [a \in Cells(L) |-> m[a] /= NSEMPTY /\ d[a] < pp]

NoSlow(L) == [a \in Cells(L) |-> FALSE]

\* the outcomes of Rule #3's test that the draws of one speed pass can give
SlowOutcomes(m, L, pp) == {RandomSlow(m, L, pp, d) : d \in DrawsFor(m, L)}

\* ---- initial states ------------------------------------------------------
PValues == (-1) .. (DrawLevels + 1)

InitWith(L, vm, pp, h, m) ==
    /\ size = L
    /\ vmax = vm
    /\ p = pp
    /\ height = h
    /\ map = m
    /\ move = FALSE
    /\ row = 0
    /\ pc = "loop"
    /\ pre = m
    /\ mid = m
    /\ slowed = NoSlow(L)
    /\ log = <<>>
    /\ moveAtCall = FALSE
    /\ updates = 0
    /\ shown = FALSE
    /\ cars0 = Cardinality(Occupied(m))
    /\ workMap = [a \in Cells(L) |-> NSEMPTY]
    /\ self_table = <<>>
    /\ ppc = [a \in Cells(L) |-> "idle"]

\* main(): NaschImagePlayer(len(highway), iters), NaschAutomaton(size, vmax,
\* p), then one PointInitializer per cell of highway
Init ==
    \E L \in 1 .. MaxLen, vm \in 1 .. MaxVmax, pp \in PValues :
        \E m \in [Cells(L) -> CellDomain(vm)] :
            InitWith(L, vm, pp, MaxIters, m)

\* the lattices of length L with exactly the cells of `cars` occupied
Placed(L, vm, cars) ==
    {[x \in Cells(L) |-> IF x \in cars THEN sp[x] ELSE NSEMPTY] :
        sp \in [cars -> 0 .. vm]}

\* sparse family: the shipped vmax on longer rings, at most GapMaxCars
\* vehicles, one iteration, p strictly between 0 and 1 (every cell's draw
\* can fall on either side of p)
InitGap ==
    \E L \in 1 .. GapMaxLen, pp \in 1 .. (DrawLevels - 1) :
        \E cars \in {c \in SUBSET Cells(L) : Cardinality(c) <= GapMaxCars} :
            \E m \in Placed(L, ProgramVmax, cars) :
                InitWith(L, ProgramVmax, pp, 1, m)

\* one-vehicle family: a single vehicle on rings up to LoneMaxLen, one
\* iteration
InitLone ==
    \E L \in 1 .. LoneMaxLen, vm \in 1 .. ProgramVmax,
       pp \in 0 .. DrawLevels :
        \E a \in Cells(L) :
            \E m \in Placed(L, vm, {a}) : InitWith(L, vm, pp, 1, m)

\* ---- NaschImagePlayer.main -----------------------------------------------
\* while self.row < self.height and running(): self.display()
Display ==
    /\ pc = "loop"
    /\ row < height
    /\ row' = row + 1
    /\ shown' = TRUE
    /\ pc' = "update"
    /\ UNCHANGED <<size, vmax, p, map, move, height, pre, mid, slowed, log,
                   moveAtCall, updates, cars0>>
    /\ UNCHANGED fine

\* update, first half: self.move = False; SynchronousAutomaton.update(self)
UpdateSpeed ==
    /\ pc = "update"
    /\ \E sl \in SlowOutcomes(map, size, p) :
        LET mv == FirstPassFlag(move)
            new == SynchronousAutomaton_update(map, size, vmax, mv, sl)
        IN  /\ move' = mv
            /\ map' = new
            /\ pre' = map
            /\ mid' = new
            /\ slowed' = sl
            /\ log' = <<PassKind(mv)>>
    /\ moveAtCall' = move
    /\ shown' = FALSE
    /\ pc' = "update2"
    /\ UNCHANGED <<size, vmax, p, row, height, updates, cars0>>
    /\ UNCHANGED fine

\* update, second half: self.move = True; SynchronousAutomaton.update(self);
\* then self.automaton.between()
UpdateMove ==
    /\ pc = "update2"
    /\ LET mv == SecondPassFlag(move)
           new == SynchronousAutomaton_update(map, size, vmax, mv,
                                              NoSlow(size))
       IN  /\ move' = mv
           /\ map' = new
           /\ log' = Append(log, PassKind(mv))
    /\ updates' = updates + 1
    /\ shown' = FALSE
    /\ pc' = "loop"
    /\ UNCHANGED <<size, vmax, p, row, height, pre, mid, slowed, moveAtCall,
                   cars0>>
    /\ UNCHANGED fine

\* the loop test fails: self.finish(...)
Finish ==
    /\ pc = "loop"
    /\ ~(row < height)
    /\ pc' = "done"
    /\ UNCHANGED <<size, vmax, p, map, move, row, height, pre, mid, slowed,
                   log, moveAtCall, updates, shown, cars0>>
    /\ UNCHANGED fine

Next == Display \/ UpdateSpeed \/ UpdateMove \/ Finish

Spec == Init /\ [][Next]_vars
SpecGap == InitGap /\ [][Next]_vars
SpecLone == InitLone /\ [][Next]_vars

\* ---- one pass, address by address -----------------------------------------
\* NaschRule.rule, first half: the populate the flag selects fills self.table
PopulateTable(m, L, vm, mv, address) ==
    IF mv = FALSE THEN NewspeedRule_populate(m, L, vm, address)
    ELSE MovementRule_populate(m, L, vm, address)

\* NaschRule.rule, second half: the rule the flag selects reads self.table
RuleOnTable(t, vm, mv, slow) ==
    IF mv = FALSE THEN NewspeedRule_rule(t, vm, slow)
    ELSE MovementRule_rule(t)

\* the outcomes of `random.random() < self.p` open to one evaluation: the
\* movement rule and the speed rule on an empty cell draw nothing
CellSlowOutcomes(t, mv, pp) ==
    IF mv = TRUE \/ t[1] = NSEMPTY THEN {FALSE}
    ELSE {d < pp : d \in 0 .. (DrawLevels - 1)}

\* variant of ReadMap: results already computed in this pass are read back
ReadMap_inPlace(m, w, pos) ==
    [a \in DOMAIN m |-> IF pos[a] = "done" THEN w[a] ELSE m[a]]

\* the lattice populate reads during a pass: self.map, which the pass does
\* not write
ReadMap(m, w, pos) == m

\* update, entry of the first pass: self.move = False
BeginSpeedPass ==
    /\ pc = "update"
    /\ move' = FirstPassFlag(move)
    /\ moveAtCall' = move
    /\ pre' = map
    /\ slowed' = NoSlow(size)
    /\ log' = <<>>
    /\ ppc' = [a \in Cells(size) |-> "idle"]
    /\ pc' = "speedpass"
    /\ UNCHANGED <<size, vmax, p, map, row, height, mid, updates, shown,
                   cars0, workMap, self_table>>

\* update, entry of the second pass: self.move = True
BeginMovePass ==
    /\ pc = "update2"
    /\ move' = SecondPassFlag(move)
    /\ ppc' = [a \in Cells(size) |-> "idle"]
    /\ pc' = "movepass"
    /\ UNCHANGED <<size, vmax, p, map, row, height, pre, mid, slowed, log,
                   moveAtCall, updates, shown, cars0, workMap, self_table>>

\* NaschRule.rule(address), first half, as a step of its own
Populate(a) ==
    /\ pc \in {"speedpass", "movepass"}
    /\ ppc[a] = "idle"
    /\ self_table' = PopulateTable(ReadMap(map, workMap, ppc), size, vmax,
                                 move, a)
    /\ ppc' = [ppc EXCEPT ![a] = "populated"]
    /\ UNCHANGED <<size, vmax, p, map, move, row, height, pc, pre, mid,
                   slowed, log, moveAtCall, updates, shown, cars0, workMap>>

\* NaschRule.rule(address), second half, as a step of its own; the value
\* returned goes into the work map
RuleStep(a) ==
    /\ pc \in {"speedpass", "movepass"}
    /\ ppc[a] = "populated"
    /\ \E sl \in CellSlowOutcomes(self_table, move, p) :
        /\ workMap' = [workMap EXCEPT
                          ![a] = RuleOnTable(self_table, vmax, move, sl)]
        /\ slowed' = IF move = FALSE THEN [slowed EXCEPT ![a] = sl] ELSE slowed
    /\ ppc' = [ppc EXCEPT ![a] = "done"]
    /\ UNCHANGED <<size, vmax, p, map, move, row, height, pc, pre, mid, log,
                   moveAtCall, updates, shown, cars0, self_table>>

\* NaschRule.rule(address) run without interruption, for any address not
\* yet evaluated in this pass
EvalAddress(a) ==
    /\ pc \in {"speedpass", "movepass"}
    /\ ppc[a] = "idle"
    /\ LET t == PopulateTable(ReadMap(map, workMap, ppc), size, vmax, move, a)
       IN  /\ self_table' = t
           /\ \E sl \in CellSlowOutcomes(t, move, p) :
               /\ workMap' = [workMap EXCEPT
                                 ![a] = RuleOnTable(t, vmax, move, sl)]
               /\ slowed' = IF move = FALSE THEN [slowed EXCEPT ![a] = sl]
                            ELSE slowed
    /\ ppc' = [ppc EXCEPT ![a] = "done"]
    /\ UNCHANGED <<size, vmax, p, map, move, row, height, pc, pre, mid, log,
                   moveAtCall, updates, shown, cars0>>

\* end of a pass: every address has been evaluated, the maps are swapped
CommitPass ==
    /\ pc \in {"speedpass", "movepass"}
    /\ \A a \in Cells(size) : ppc[a] = "done"
    /\ map' = workMap
    /\ workMap' = map
    /\ log' = Append(log, PassKind(move))
    /\ shown' = FALSE
    /\ IF pc = "speedpass"
       THEN /\ mid' = workMap
            /\ pc' = "update2"
            /\ updates' = updates
       ELSE /\ mid' = mid
            /\ pc' = "loop"
            /\ updates' = updates + 1
    /\ UNCHANGED <<size, vmax, p, move, row, height, pre, slowed, moveAtCall,
                   cars0, self_table, ppc>>

\* the family of the step-wise passes: the dense lattices, one iteration,
\* p = 1/DrawLevels, strictly between 0 and 1, so that both outcomes of a
\* draw are open to every vehicle
InitFine ==
    \E L \in 1 .. MaxLen, vm \in 1 .. MaxVmax, pp \in {1} :
        \E m \in [Cells(L) -> CellDomain(vm)] : InitWith(L, vm, pp, 1, m)

\* the addresses of a pass evaluated one after the other, in any order
NextOrder ==
    \/ Display
    \/ BeginSpeedPass
    \/ BeginMovePass
    \/ \E a \in Cells(size) : EvalAddress(a)
    \/ CommitPass
    \/ Finish

\* the addresses of a pass evaluated by concurrent processes
NextPar ==
    \/ Display
    \/ BeginSpeedPass
    \/ BeginMovePass
    \/ \E a \in Cells(size) : Populate(a)
    \/ \E a \in Cells(size) : RuleStep(a)
    \/ CommitPass
    \/ Finish

SpecOrder == InitFine /\ [][NextOrder]_vars
SpecPar == InitFine /\ [][NextPar]_vars

\* ---- update called again and again ----------------------------------------
\* the family of the free-flow runs: p = 0, N >= 1 vehicles with any speeds
\* on a ring of roadLength >= N * (vmax + 1); the automaton is about to be
\* updated
InitFlow ==
    \E vm \in 1 .. MaxVmax, L \in 1 .. FlowMaxLen :
        \E cars \in {c \in SUBSET Cells(L) :
                        /\ Cardinality(c) >= 1
                        /\ L >= Cardinality(c) * (vm + 1)} :
            \E m \in Placed(L, vm, cars) :
                /\ size = L
                /\ vmax = vm
                /\ p = 0
                /\ height = 0
                /\ map = m
                /\ move = FALSE
                /\ row = 0
                /\ pc = "update"
                /\ pre = m
                /\ mid = m
                /\ slowed = NoSlow(L)
                /\ log = <<>>
                /\ moveAtCall = FALSE
                /\ updates = 0
                /\ shown = FALSE
                /\ cars0 = Cardinality(cars)
                /\ workMap = [a \in Cells(L) |-> NSEMPTY]
                /\ self_table = <<>>
                /\ ppc = [a \in Cells(L) |-> "idle"]

\* update, second half, with update called again right after it; `updates`
\* only records that an update has been completed
FlowMove ==
    /\ pc = "update2"
    /\ LET mv == SecondPassFlag(move)
           new == SynchronousAutomaton_update(map, size, vmax, mv,
                                              NoSlow(size))
       IN  /\ move' = mv
           /\ map' = new
           /\ log' = Append(log, PassKind(mv))
    /\ updates' = IF updates = 0 THEN 1 ELSE updates
    /\ shown' = FALSE
    /\ pc' = "update"
    /\ UNCHANGED <<size, vmax, p, row, height, pre, mid, slowed, moveAtCall,
                   cars0>>
    /\ UNCHANGED fine

NextFlow ==
    \/ UpdateSpeed
    \/ FlowMove

\* every call of update runs both passes to the end and is followed by the
\* next call
SpecFlow == InitFlow /\ [][NextFlow]_vars /\ WF_vars(NextFlow)

\* ---- properties ----------------------------------------------------------
Count(m) == Cardinality(Occupied(m))

\* distance from address a to the first occupied cell ahead of it on the ring
\* (a itself at distance L when a is the only vehicle)
DistAhead(m, L, a) ==
    CHOOSE d \in 1 .. L :
        /\ m[(a + d) % L] /= NSEMPTY
        /\ \A j \in 1 .. (d - 1) : m[(a + j) % L] = NSEMPTY

\* number of consecutive empty cells directly ahead of a, with wraparound,
\* looking at most vm cells ahead
EmptyAhead(m, L, vm, a) ==
    CHOOSE d \in 0 .. vm :
        /\ \A j \in 1 .. d : m[(a + j) % L] = NSEMPTY
        /\ d < vm => m[(a + d + 1) % L] /= NSEMPTY

\* C1: vehicle conservation.  In every state the number of occupied cells
\* equals the number when the current update was entered and the number of
\* the initial lattice, whatever the draws and however many updates ran.
C1_VehicleConservation ==
    /\ Count(map) = Count(pre)
    /\ Count(map) = cars0

\* C1 witness: two updates have completed on a ring with at least two
\* vehicles, and the last one moved something.
C1_Witness ==
    /\ pc = "loop"
    /\ updates = 2
    /\ Count(map) >= 2
    /\ map /= pre

\* C2: cell domain.  After the speed pass and after the movement pass of
\* every update every cell holds NSEMPTY or a speed in 0..vmax.
C2_CellDomain ==
    \A a \in Cells(size) : map[a] \in CellDomain(vmax)

\* C2 witness: a speed pass has just committed, a vehicle was accelerated to
\* vmax and another one was randomly slowed to 0.
C2_Witness ==
    /\ pc = "update2"
    /\ \E a \in Cells(size) : pre[a] = vmax - 1 /\ map[a] = vmax
    /\ \E b \in Cells(size) : slowed[b] /\ pre[b] = 0 /\ map[b] = 0

\* C3: no overtaking.  With at least two vehicles, after a completed update
\* every vehicle has advanced by its committed speed to a cell strictly
\* before the cell the next vehicle ahead occupied when the update began.
C3_NoOvertaking ==
    (pc = "loop" /\ updates >= 1 /\ Count(pre) >= 2) =>
        /\ Count(map) = Count(pre)
        /\ \A a \in Occupied(pre) :
            /\ mid[a] < DistAhead(pre, size, a)
            /\ map[(a + mid[a]) % size] = mid[a]

\* C3 witness: an update has completed in which a vehicle moved up to the
\* cell right behind the one its leader had occupied.
C3_Witness ==
    /\ pc = "loop"
    /\ updates >= 1
    /\ Count(pre) >= 2
    /\ \E a \in Occupied(pre) :
        /\ mid[a] >= 1
        /\ mid[a] = DistAhead(pre, size, a) - 1
        /\ map[(a + mid[a]) % size] = mid[a]

\* C4: gap limit.  The speed the speed pass commits for an occupied cell is
\* at most the number of consecutive empty cells directly ahead of it in the
\* pre-step lattice (with wraparound, up to vmax cells); with vmax = 5 and
\* exactly 3 empty cells ahead followed by a vehicle it is at most 3.
C4_GapLimit ==
    pc = "update2" =>
        \A a \in Occupied(pre) :
            /\ map[a] <= EmptyAhead(pre, size, vmax, a)
            /\ (/\ vmax = 5
                /\ \A j \in 1 .. 3 : pre[(a + j) % size] = NSEMPTY
                /\ pre[(a + 4) % size] /= NSEMPTY) => map[a] <= 3

\* C4 witness: vmax = 5, a vehicle with exactly 3 empty cells and then another
\* vehicle ahead of it, and the speed pass has committed speed 3 for it.
C4_Witness ==
    /\ pc = "update2"
    /\ vmax = 5
    /\ \E a \in Occupied(pre) :
        /\ \A j \in 1 .. 3 : pre[(a + j) % size] = NSEMPTY
        /\ pre[(a + 4) % size] /= NSEMPTY
        /\ (a + 4) % size /= a
        /\ pre[a] >= 3
        /\ map[a] = 3

\* C5: lone vehicle.  With p = 0, exactly one vehicle (address a, speed v)
\* and roadLength > vmax, a completed update leaves the lattice empty except
\* for speed min(v+1, vmax) at address (a + min(v+1, vmax)) mod roadLength.
C5_LoneVehicle ==
    (/\ pc = "loop"
     /\ updates >= 1
     /\ p = 0
     /\ Count(pre) = 1
     /\ size > vmax) =>
        \A a \in Occupied(pre) :
            LET s == Min(pre[a] + 1, vmax)
            IN  map = [x \in Cells(size) |->
                          IF x = (a + s) % size THEN s ELSE NSEMPTY]

\* C5 witness: roadLength 10, vmax 2, p 0, the vehicle started the update at
\* address 2 with speed 1 and is now at address 4 with speed 2.
C5_Witness ==
    /\ pc = "loop"
    /\ updates = 1
    /\ p = 0
    /\ size = 10
    /\ vmax = 2
    /\ pre = [x \in Cells(10) |-> IF x = 2 THEN 1 ELSE NSEMPTY]
    /\ map = [x \in Cells(10) |-> IF x = 4 THEN 2 ELSE NSEMPTY]

\* the lattice m turned by k cells in the direction of travel
Rot(m, L, k) == [x \in Cells(L) |-> m[(x - k) % L]]

\* the speed pass and the movement pass as the rules compute them
SpeedPassOf(m, L, vm, sl) ==
    [a \in Cells(L) |->
        NewspeedRule_rule(NewspeedRule_populate(m, L, vm, a), vm, sl[a])]

MovementPassOf(m, L, vm) ==
    [a \in Cells(L) |-> MovementRule_rule(MovementRule_populate(m, L, vm, a))]

\* the two stopped vehicles of the adjacency scenario
TwoStopped(L) == [x \in Cells(L) |-> IF x \in {0, 1} THEN 0 ELSE NSEMPTY]

\* C6 (as stated): with p = 0 and stopped vehicles at addresses 0 and 1 only,
\* after one update both are still at addresses 0 and 1 with speed 0, for
\* every roadLength >= 2.
C6_Original ==
    (/\ pc = "loop"
     /\ updates >= 1
     /\ p = 0
     /\ size >= 2
     /\ pre = TwoStopped(size)) => map = TwoStopped(size)

\* C6 (amended): with p = 0 and stopped vehicles at addresses 0 and 1 only,
\* after one update the vehicle of address 0 is still there with speed 0;
\* the vehicle of address 1 is still there with speed 0 when roadLength = 2
\* and has moved to address 2 with speed 1 when roadLength >= 3.
C6_AdjacentStopped ==
    (/\ pc = "loop"
     /\ updates >= 1
     /\ p = 0
     /\ size >= 2
     /\ pre = TwoStopped(size)) =>
        /\ size = 2 => map = TwoStopped(size)
        /\ size >= 3 =>
            map = [x \in Cells(size) |->
                      IF x = 0 THEN 0 ELSE IF x = 2 THEN 1 ELSE NSEMPTY]

\* C6 witness: the scenario has been stepped once on a ring of at least 3
\* cells and the front vehicle is now at address 2 with speed 1.
C6_Witness ==
    /\ pc = "loop"
    /\ updates = 1
    /\ p = 0
    /\ size >= 3
    /\ pre = TwoStopped(size)
    /\ map[0] = 0
    /\ map[1] = NSEMPTY
    /\ map[2] = 1

\* C7: wraparound.  After a completed update every vehicle is at its old
\* address plus its committed speed, reduced by roadLength when that reaches
\* the end of the lattice; and turning the pre-step lattice (and the draw outcomes of
\* its vehicles) by any k cells and updating gives the updated lattice turned
\* by k cells.
C7_Wraparound ==
    (pc = "loop" /\ updates >= 1) =>
        /\ \A a \in Occupied(pre) :
            /\ a + mid[a] < size => map[a + mid[a]] = mid[a]
            /\ a + mid[a] >= size => map[a + mid[a] - size] = mid[a]
        /\ \A k \in Cells(size) :
            MovementPassOf(
                SpeedPassOf(Rot(pre, size, k), size, vmax,
                            Rot(slowed, size, k)),
                size, vmax) = Rot(map, size, k)

\* C7 witness: an update has completed in which a vehicle whose next vehicle
\* ahead lay across the end of the lattice was held to the gap and landed at
\* a wrapped-around low address.
C7_Witness ==
    /\ pc = "loop"
    /\ updates >= 1
    /\ \E a \in Occupied(pre) :
        /\ Count(pre) >= 2
        /\ a + DistAhead(pre, size, a) >= size
        /\ mid[a] = DistAhead(pre, size, a) - 1
        /\ mid[a] < Min(pre[a] + 1, vmax)
        /\ mid[a] >= 1
        /\ a + mid[a] >= size
        /\ map[a + mid[a] - size] = mid[a]

\* C8 (as stated): an automaton that is stepped was constructed with
\* vmax >= 1, roadLength >= 1 and p in [0,1]; any other construction ended
\* in a configuration error.
C8_MalformedRejected ==
    pc = "update" =>
        /\ vmax >= 1
        /\ size >= 1
        /\ p \in 0 .. DrawLevels

\* C9: phase ordering.  Every update runs one speed pass and then one
\* movement pass, whatever the flag was on entry; the speed pass is computed
\* from the lattice of entry and the movement pass from the lattice the
\* speed pass committed.
C9_PhaseOrdering ==
    /\ pc = "update2" =>
        /\ log = <<"speed">>
        /\ map = SpeedPassOf(pre, size, vmax, slowed)
    /\ (pc \in {"loop", "done"} /\ updates >= 1) =>
        /\ log = <<"speed", "movement">>
        /\ mid = SpeedPassOf(pre, size, vmax, slowed)
        /\ map = MovementPassOf(mid, size, vmax)

\* C9 witness: a second update, entered with the flag still TRUE, has run
\* its two passes and both changed the lattice.
C9_Witness ==
    /\ pc = "loop"
    /\ updates = 2
    /\ moveAtCall = TRUE
    /\ log = <<"speed", "movement">>
    /\ mid /= pre
    /\ map /= mid

\* C10 (as stated): main ends after `height` updates and the lattice made by
\* every update, the last one included, has been handed to display.
C10_EveryUpdateDisplayed ==
    pc = "done" =>
        /\ updates = height
        /\ shown

\* min(v+1, vmax, gap) for the vehicle at address a of lattice m
GapSpeed(m, L, vm, a) == Min(Min(m[a] + 1, vm), EmptyAhead(m, L, vm, a))

\* C12: speed-pass result.  For every occupied cell the speed pass commits
\* min(v+1, vmax, gap) when the cell's draw is >= p and that value less one,
\* floored at 0, when the draw is < p; with p = 0 no vehicle is slowed and with
\* p = 1 every vehicle is.
C12_SpeedPassResult ==
    pc = "update2" =>
        /\ \A a \in Occupied(pre) :
            map[a] = IF slowed[a]
                     THEN Max(GapSpeed(pre, size, vmax, a) - 1, 0)
                     ELSE GapSpeed(pre, size, vmax, a)
        /\ p = 0 => \A a \in Occupied(pre) : ~slowed[a]
        /\ p = DrawLevels => \A a \in Occupied(pre) : slowed[a]

\* C12 witness: with p strictly between 0 and 1, one speed pass has held a
\* vehicle to its gap, slowed one vehicle and left another unslowed.
C12_Witness ==
    /\ pc = "update2"
    /\ p \in 1 .. (DrawLevels - 1)
    /\ \E a, b \in Occupied(pre) :
        /\ slowed[a]
        /\ map[a] = GapSpeed(pre, size, vmax, a) - 1
        /\ ~slowed[b]
        /\ EmptyAhead(pre, size, vmax, b) < Min(pre[b] + 1, vmax)
        /\ map[b] = EmptyAhead(pre, size, vmax, b)

\* C13: movement-pass result.  With S the lattice the speed pass committed
\* and M the one the movement pass committed: M[x] = 0 iff S[x] = 0; for s in
\* 1..vmax, M[x] = s iff S[(x-s) mod L] = s with the cells strictly between
\* empty in S; every other cell of M is empty.
C13_MovementPassResult ==
    (pc \in {"loop", "done"} /\ updates >= 1) =>
        \A x \in Cells(size) :
            /\ map[x] = 0 <=> mid[x] = 0
            /\ \A s \in 1 .. vmax :
                map[x] = s <=>
                    /\ mid[(x - s) % size] = s
                    /\ \A j \in 1 .. (s - 1) : mid[(x - j) % size] = NSEMPTY
            /\ map[x] \in CellDomain(vmax)
            /\ mid[x] > 0 => map[x] = NSEMPTY

\* C13 witness: a movement pass has moved a vehicle, vacating its cell, and
\* left a stopped vehicle in place.
C13_Witness ==
    /\ pc = "loop"
    /\ updates >= 1
    /\ \E x, y \in Cells(size) :
        /\ mid[x] >= 1
        /\ map[x] = NSEMPTY
        /\ map[(x + mid[x]) % size] = mid[x]
        /\ mid[y] = 0
        /\ map[y] = 0

\* C14: no collision on landing.  In a lattice committed by a speed pass the
\* targets (a + speed) mod L of the vehicles are pairwise distinct, the target
\* of every moving vehicle is empty, and behind an empty cell at most one
\* cell within vmax holds a speed equal to its distance.
C14_NoCollision ==
    pc = "update2" =>
        /\ \A a, b \in Occupied(map) :
            a /= b => (a + map[a]) % size /= (b + map[b]) % size
        /\ \A a \in Occupied(map) :
            map[a] > 0 => map[(a + map[a]) % size] = NSEMPTY
        /\ \A x \in Cells(size) :
            map[x] = NSEMPTY =>
                Cardinality({d \in 1 .. vmax : map[(x - d) % size] = d}) <= 1

\* C14 witness: a speed pass has committed a lattice with an empty cell that
\* has two vehicles within vmax cells behind it, the nearer one headed for it.
C14_Witness ==
    /\ pc = "update2"
    /\ \E x \in Cells(size) :
        /\ map[x] = NSEMPTY
        /\ \E d1, d2 \in 1 .. vmax :
            /\ d1 < d2
            /\ d2 < size
            /\ map[(x - d1) % size] = d1
            /\ map[(x - d2) % size] /= NSEMPTY

\* C15: the speed pass keeps occupancy.  A cell is empty after the speed pass
\* iff it was empty before it.
C15_SpeedPassOccupancy ==
    pc = "update2" =>
        \A a \in Cells(size) : map[a] = NSEMPTY <=> pre[a] = NSEMPTY

\* C15 witness: a speed pass has changed a speed, slowed a stopped vehicle
\* (which stays at 0) and left an empty cell empty.
C15_Witness ==
    /\ pc = "update2"
    /\ \E a, b, c \in Cells(size) :
        /\ pre[a] /= NSEMPTY
        /\ map[a] /= pre[a]
        /\ pre[b] = 0
        /\ slowed[b]
        /\ map[b] = 0
        /\ pre[c] = NSEMPTY
        /\ map[c] = NSEMPTY

\* C18: trail.  After every completed update a vehicle with speed v >= 1 at
\* address x has the v cells behind it, (x-1) mod L .. (x-v) mod L, empty.
C18_Trail ==
    (pc \in {"loop", "done"} /\ updates >= 1) =>
        \A x \in Occupied(map) :
            \A j \in 1 .. map[x] : map[(x - j) % size] = NSEMPTY

\* C18 witness: an update has completed in which a vehicle moved and another
\* vehicle stands right behind the cells it left and crossed.
C18_Witness ==
    /\ pc = "loop"
    /\ updates >= 1
    /\ \E x, y \in Occupied(map) :
        /\ x /= y
        /\ map[x] >= 1
        /\ (x - map[x] - 1) % size = y

\* C16: synchronous pass.  With the addresses of a pass evaluated one after
\* the other in any order, each evaluation reads the lattice of the start of
\* the pass, and the lattice committed is the one the rules give on that
\* lattice: the same for every order.
C16_SynchronousPass ==
    /\ pc \in {"speedpass", "movepass"} =>
        \A a \in Cells(size) :
            ppc[a] = "done" =>
                workMap[a] = NaschRule_rule(map, size, vmax, move, a, slowed[a])
    /\ pc = "update2" => map = SpeedPassOf(pre, size, vmax, slowed)
    /\ (pc \in {"loop", "done"} /\ updates >= 1) =>
        /\ mid = SpeedPassOf(pre, size, vmax, slowed)
        /\ map = MovementPassOf(mid, size, vmax)

\* C16 witness: a pass is under way in which a higher address was evaluated
\* before a lower one and the value computed for it differs from the value
\* the lattice still holds there.
C16_Witness ==
    /\ pc \in {"speedpass", "movepass"}
    /\ \E a, b \in Cells(size) :
        /\ a < b
        /\ ppc[a] = "idle"
        /\ ppc[b] = "done"
        /\ workMap[b] /= map[b]
        /\ map[a] /= NSEMPTY

\* C17 (as stated): with populate and rule of the addresses of a pass run by
\* concurrent processes under any interleaving, the lattice committed equals
\* the one sequential evaluation gives.
C17_ParallelPass ==
    /\ pc = "update2" => map = SpeedPassOf(pre, size, vmax, slowed)
    /\ (pc \in {"loop", "done"} /\ updates >= 1) =>
        map = MovementPassOf(mid, size, vmax)

\* every vehicle of lattice m has speed vm
AllAtVmax(m, vm) == \A a \in Occupied(m) : m[a] = vm

\* free flow: every vehicle has speed vmax, the speed pass leaves the lattice
\* as it is and the update as a whole advances every vehicle by vmax cells
FreeFlow ==
    /\ AllAtVmax(map, vmax)
    /\ Count(map) = cars0
    /\ pc = "update2" => map = pre
    /\ (pc = "update" /\ updates >= 1) =>
        /\ AllAtVmax(pre, vmax)
        /\ map = Rot(pre, size, vmax)

\* C19: free flow is reached.  With p = 0 and N >= 1 vehicles on a ring of
\* roadLength >= N * (vmax + 1), from every placement and all speeds, update
\* called again and again leads to a state from which on every vehicle has
\* speed vmax and advances vmax cells per update, forever.
C19_FreeFlowReached == <>[]FreeFlow

\* C19 witness: two or more vehicles, vmax >= 2, and an update that began
\* with every vehicle at vmax has advanced them all by vmax cells.
C19_Witness ==
    /\ pc = "update"
    /\ updates >= 1
    /\ p = 0
    /\ vmax >= 2
    /\ Count(map) >= 2
    /\ size >= Count(map) * (vmax + 1)
    /\ AllAtVmax(pre, vmax)
    /\ AllAtVmax(map, vmax)
    /\ map = Rot(pre, size, vmax)

====
